---- MODULE Spec2Model ----
(***************************************************************************)
(* v.db.labels: the join-and-format loop of main().                        *)
(*                                                                         *)
(* Text is modelled as a sequence of one-character strings, so that        *)
(* str.splitlines, str.split and int() are computed character by           *)
(* character.  Attribute, column and option names are TLA+ strings.        *)
(***************************************************************************)
EXTENDS Integers, Sequences, FiniteSets, TLC

\* Largest number of lines v.out.ascii hands back in one modelled run.
MaxLines == 3

(***************************************************************************)
(* Python text primitives                                                  *)
(***************************************************************************)

\* s[i:] of Python (0-based i), for 0 <= i <= len(s)
Drop(s, i) == SubSeq(s, i + 1, Len(s))

\* s.startswith(p)
StartsWith(s, p) == Len(p) <= Len(s) /\ SubSeq(s, 1, Len(p)) = p

\* the line boundaries str.splitlines recognises (those TLA+ can spell)
LineBreaks == {"\n", "\r", "\f"}

RECURSIVE SplitLinesFrom(_, _)
\* cur: the characters of the line being collected
SplitLinesFrom(s, cur) ==
    IF s = <<>>
    THEN IF cur = <<>> THEN <<>> ELSE <<cur>>
    ELSE IF StartsWith(s, <<"\r", "\n">>)
    THEN <<cur>> \o SplitLinesFrom(Drop(s, 2), <<>>)
    ELSE IF Head(s) \in LineBreaks
    THEN <<cur>> \o SplitLinesFrom(Tail(s), <<>>)
    ELSE SplitLinesFrom(Tail(s), Append(cur, Head(s)))

\* str.splitlines(): no line break kept, no empty last line after a final break
SplitLines(s) == SplitLinesFrom(s, <<>>)

RECURSIVE SplitFrom(_, _, _)
SplitFrom(s, sep, cur) ==
    IF s = <<>>
    THEN <<cur>>
    ELSE IF StartsWith(s, sep)
    THEN <<cur>> \o SplitFrom(Drop(s, Len(sep)), sep, <<>>)
    ELSE SplitFrom(Tail(s), sep, Append(cur, Head(s)))

\* str.split(sep) for a non-empty sep: leftmost non-overlapping occurrences
Split(s, sep) == SplitFrom(s, sep, <<>>)

Whitespace == {" ", "\t", "\n", "\r", "\f"}

RECURSIVE LStrip(_)
LStrip(s) == IF s # <<>> /\ Head(s) \in Whitespace THEN LStrip(Tail(s)) ELSE s

RECURSIVE RStrip(_)
RStrip(s) ==
    IF s # <<>> /\ s[Len(s)] \in Whitespace
    THEN RStrip(SubSeq(s, 1, Len(s) - 1))
    ELSE s

DigitValue(c) ==
    CASE c = "0" -> 0 [] c = "1" -> 1 [] c = "2" -> 2 [] c = "3" -> 3
      [] c = "4" -> 4 [] c = "5" -> 5 [] c = "6" -> 6 [] c = "7" -> 7
      [] c = "8" -> 8 [] c = "9" -> 9

Digits == {"0", "1", "2", "3", "4", "5", "6", "7", "8", "9"}

\* digits, single underscores allowed between two digits
IsDigitBody(b) ==
    /\ b # <<>>
    /\ \A i \in 1..Len(b) : b[i] \in Digits \cup {"_"}
    /\ b[1] \in Digits
    /\ b[Len(b)] \in Digits
    /\ \A i \in 1..(Len(b) - 1) : ~(b[i] = "_" /\ b[i + 1] = "_")

RECURSIVE DigitBodyValue(_, _)
DigitBodyValue(b, acc) ==
    IF b = <<>> THEN acc
    ELSE IF Head(b) = "_" THEN DigitBodyValue(Tail(b), acc)
    ELSE DigitBodyValue(Tail(b), 10 * acc + DigitValue(Head(b)))

\* int(s): surrounding whitespace stripped, one optional sign, decimal digits;
\* anything else raises ValueError (ok = FALSE)
IntParse(s) ==
    LET t == RStrip(LStrip(s))
        signed == t # <<>> /\ Head(t) \in {"+", "-"}
        body == IF signed THEN Tail(t) ELSE t
        magnitude == DigitBodyValue(body, 0)
    IN  IF IsDigitBody(body)
        THEN [ok |-> TRUE,
              val |-> IF signed /\ Head(t) = "-" THEN 0 - magnitude ELSE magnitude]
        ELSE [ok |-> FALSE, val |-> 0]

RECURSIVE JoinFields(_, _)
\* sep.join(fields)
JoinFields(fields, sep) ==
    IF Len(fields) = 0 THEN <<>>
    ELSE IF Len(fields) = 1 THEN fields[1]
    ELSE fields[1] \o sep \o JoinFields(Tail(fields), sep)

(***************************************************************************)
(* The data main() works on                                                *)
(***************************************************************************)

\* horizontal separator for xyz
separator == <<"<", "-", "-", "-", ">">>

base_label_attributes ==
    <<"east", "north", "xoffset", "yoffset", "ref", "font", "color", "size",
      "width", "hcolor", "hwidth", "background", "border", "opaque", "rotate",
      "text">>

option_label_attributes == <<"reference", "rotation">>

\* label_attributes after label_attributes.extend(option_label_attributes)
label_attributes == base_label_attributes \o option_label_attributes

\* OptionKey with the two option names exchanged
OptionKeySwapped(attribute) ==
    CASE attribute = "ref" -> "rotation"
      [] attribute = "rotate" -> "reference"
      [] OTHER -> attribute

\* label_attribute_to_option.get(attribute, attribute)
OptionKey(attribute) ==
    CASE attribute = "ref" -> "reference"
      [] attribute = "rotate" -> "rotation"
      [] OTHER -> attribute

\* the options the loop reads, with the answers the module header declares
DefaultOptions ==
    ("xoffset" :> <<"0">>) @@
    ("yoffset" :> <<"0">>) @@
    ("reference" :> <<"c", "e", "n", "t", "e", "r">>) @@
    ("font" :> <<"s", "t", "a", "n", "d", "a", "r", "d">>) @@
    ("size" :> <<"1", "0", "0">>) @@
    ("color" :> <<"b", "l", "a", "c", "k">>) @@
    ("rotation" :> <<"0">>) @@
    ("width" :> <<"1">>) @@
    ("hcolor" :> <<"n", "o", "n", "e">>) @@
    ("hwidth" :> <<"0">>) @@
    ("background" :> <<"n", "o", "n", "e">>) @@
    ("border" :> <<"n", "o", "n", "e">>) @@
    ("opaque" :> <<"y", "e", "s">>)

\* the same options, every one given on the command line
GivenOptions ==
    ("xoffset" :> <<"5">>) @@
    ("yoffset" :> <<"7">>) @@
    ("reference" :> <<"l", "e", "f", "t">>) @@
    ("font" :> <<"r", "o", "m", "a", "n", "s">>) @@
    ("size" :> <<"5", "0">>) @@
    ("color" :> <<"r", "e", "d">>) @@
    ("rotation" :> <<"4", "5">>) @@
    ("width" :> <<"2">>) @@
    ("hcolor" :> <<"b", "l", "u", "e">>) @@
    ("hwidth" :> <<"3">>) @@
    ("background" :> <<"w", "h", "i", "t", "e">>) @@
    ("border" :> <<"g", "r", "e", "y">>) @@
    ("opaque" :> <<"n", "o">>)

OptionSets == {DefaultOptions, GivenOptions}

\* column lists vector_db_select can return (the key column first)
ColumnLists ==
    { <<"cat">>,
      <<"cat", "name">>,
      <<"cat", "label">>,
      <<"cat", "name", "label">>,
      <<"cat", "label", "name">>,
      <<"cat", "text", "name">>,
      <<"cat", "east", "north">>,
      <<"cat", "north">>,
      <<"cat", "font", "rotate">>,
      <<"cat", "ref", "size">> }

\* categories that have a row in the attribute table
TableCats == {1, 2}

CatText(c) == IF c = 1 THEN <<"1">> ELSE <<"2">>

\* a cell that tells its column i and its category c
MarkedCell(i, c) == <<IF i = 2 THEN "B" ELSE "C">> \o CatText(c)

\* a row whose cells tell column and category
MarkedRow(columns, c) ==
    [i \in 1..Len(columns) |->
        IF columns[i] = "cat" THEN CatText(c) ELSE MarkedCell(i, c)]

\* a row holding "0" in every column but the key (also the answer of several
\* options)
PlainRow(columns, c) ==
    [i \in 1..Len(columns) |-> IF columns[i] = "cat" THEN CatText(c) ELSE <<"0">>]

\* result['values']: a dictionary from category to row
Tables(columns) ==
    { [c \in TableCats |-> MarkedRow(columns, c)],
      [c \in TableCats |-> PlainRow(columns, c)] }

\* the field lists of the lines v.out.ascii can print (format=point)
BlankPoint == << <<>> >>
PointsOk ==
    { << <<"1", "0", ".", "0">>, <<"2", "0", ".", "0">>, <<"1">> >>,
      << <<"-", "3">>, <<"4">>, <<" ", "+", "2">>, <<"z">> >> }
PointNoRow == << <<"5">>, <<"6">>, <<"3">> >>
PointBadCat == << <<"5">>, <<"6">>, <<"1", ".", "0">> >>
PointShort == << <<"7", "<", "-", "-">>, <<"8">> >>
PointPool == PointsOk \cup {BlankPoint, PointNoRow, PointBadCat, PointShort}

RECURSIVE AsciiOf(_)
\* the text v.out.ascii prints: one line per point, fields joined by the separator
AsciiOf(points) ==
    IF points = <<>> THEN <<>>
    ELSE JoinFields(Head(points), separator) \o <<"\n">> \o AsciiOf(Tail(points))

(***************************************************************************)
(* State                                                                   *)
(***************************************************************************)
VARIABLES
    options,        \* options, as parsed by gscript.parser()
    column_names,   \* result['columns']
    table,          \* result['values']
    points,         \* the points v.out.ascii printed, as field lists
    ascii,          \* the text read from v.out.ascii
    lines,          \* ascii.splitlines(), the sequence the outer loop walks
    idx,            \* position of the outer loop in lines (1-based)
    value,          \* the local variable value
    stdout,         \* the sys.stdout.write calls made so far
    status          \* "running", "done", or the exception that ended the run

vars == <<options, column_names, table, points, ascii, lines, idx, value,
          stdout, status>>

\* value before its first assignment
Unbound == <<"<unbound>">>

\* sys.stdout.write('{key}: {value}\n'.format(key=attribute, value=value))
AttributeLine(attribute, v) == [kind |-> "attribute", key |-> attribute, value |-> v]

\* sys.stdout.write('\n')
BlankLine == [kind |-> "blank", key |-> "", value |-> <<>>]

(***************************************************************************)
(* The body of the loops                                                   *)
(***************************************************************************)

\* attribute in column_names
InColumns(name) == \E i \in 1..Len(column_names) : column_names[i] = name

\* column_indexes[name] (1-based here); a repeated name keeps its last position
ColumnIndex(name) ==
    CHOOSE i \in 1..Len(column_names) :
        /\ column_names[i] = name
        /\ \A j \in (i + 1)..Len(column_names) : column_names[j] # name

RECURSIVE GuessTextFrom(_, _, _)
\* for n in candidates: if n in column_names: value = row[...]; break
GuessTextFrom(candidates, row, v) ==
    IF candidates = <<>> THEN v
    ELSE IF InColumns(Head(candidates)) THEN row[ColumnIndex(Head(candidates))]
    ELSE GuessTextFrom(Tail(candidates), row, v)

\* GuessText with label tried before name
GuessTextLabelFirst(row, v) == GuessTextFrom(<<"label", "name">>, row, v)

\* if text is not in attribute table, try to guess the column
GuessText(row, v) == GuessTextFrom(<<"name", "label">>, row, v)

\* Resolve with the geometry tried before the columns
ResolveGeometryFirst(attribute, row, east, north, v) ==
    IF attribute = "east" THEN east
    ELSE IF attribute = "north" THEN north
    ELSE IF InColumns(attribute) THEN row[ColumnIndex(attribute)]
    ELSE IF attribute = "text" THEN GuessText(row, v)
    ELSE options[OptionKey(attribute)]

\* Resolve with north taking the east coordinate
ResolveNorthFromEast(attribute, row, east, north, v) ==
    IF InColumns(attribute) THEN row[ColumnIndex(attribute)]
    ELSE IF attribute = "east" THEN east
    ELSE IF attribute = "north" THEN east
    ELSE IF attribute = "text" THEN GuessText(row, v)
    ELSE options[OptionKey(attribute)]

\* Resolve with xoffset never looked up: value stays as north left it
ResolveXoffsetStale(attribute, row, east, north, v) ==
    IF InColumns(attribute) THEN row[ColumnIndex(attribute)]
    ELSE IF attribute = "east" THEN east
    ELSE IF attribute = "north" THEN north
    ELSE IF attribute = "text" THEN GuessText(row, v)
    ELSE IF attribute = "xoffset" THEN v
    ELSE options[OptionKey(attribute)]

\* value after the if/elif chain of one pass of the inner loop; v is value before
Resolve(attribute, row, east, north, v) ==
    IF InColumns(attribute) THEN row[ColumnIndex(attribute)]
    ELSE IF attribute = "east" THEN east
    ELSE IF attribute = "north" THEN north
    ELSE IF attribute = "text" THEN GuessText(row, v)
    ELSE options[OptionKey(attribute)]

RECURSIVE BlockFrom(_, _, _, _, _)
\* the inner loop from attributes onward: the writes it makes and the last value
BlockFrom(attributes, row, east, north, v) ==
    IF attributes = <<>>
    THEN [writes |-> <<>>, value |-> v]
    ELSE LET nv == Resolve(Head(attributes), row, east, north, v)
             rest == BlockFrom(Tail(attributes), row, east, north, nv)
         IN  [writes |-> <<AttributeLine(Head(attributes), nv)>> \o rest.writes,
              value |-> rest.value]

\* Block without the closing blank line
BlockUnclosed(row, east, north, v) ==
    BlockFrom(label_attributes, row, east, north, v)

\* everything one pass of the outer loop writes for a feature
Block(row, east, north, v) ==
    LET b == BlockFrom(label_attributes, row, east, north, v)
    IN  [writes |-> Append(b.writes, BlankLine), value |-> b.value]

(***************************************************************************)
(* Init: the state when the outer loop is entered                          *)
(***************************************************************************)
PointLists == UNION {[1..n -> PointPool] : n \in 0..MaxLines}

Init ==
    /\ options \in OptionSets
    /\ column_names \in ColumnLists
    /\ table \in Tables(column_names)
    /\ points \in PointLists
    /\ ascii = AsciiOf(points)
    /\ lines = SplitLines(ascii)
    /\ idx = 1
    /\ value = Unbound
    /\ stdout = <<>>
    /\ status = "running"

(***************************************************************************)
(* One action per way a pass of the outer loop can go                      *)
(***************************************************************************)
AtLine == status = "running" /\ idx <= Len(lines)

\* values = line.split(separator)
Values == Split(lines[idx], separator)

\* if not line: continue
SkipBlankLine ==
    /\ AtLine
    /\ lines[idx] = <<>>
    /\ idx' = idx + 1
    /\ UNCHANGED <<options, column_names, table, points, ascii, lines, value,
                   stdout, status>>

\* values[1] or values[2] is out of range
RaiseIndexError ==
    /\ AtLine
    /\ lines[idx] # <<>>
    /\ Len(Values) < 3
    /\ status' = "IndexError"
    /\ UNCHANGED <<options, column_names, table, points, ascii, lines, idx,
                   value, stdout>>

\* a category that is no integer passed over instead of raising
SkipUnparsedCategory ==
    /\ AtLine
    /\ lines[idx] # <<>>
    /\ Len(Values) >= 3
    /\ ~IntParse(Values[3]).ok
    /\ idx' = idx + 1
    /\ UNCHANGED <<options, column_names, table, points, ascii, lines, value,
                   stdout, status>>

\* int(values[2]) fails
RaiseValueError ==
    /\ AtLine
    /\ lines[idx] # <<>>
    /\ Len(Values) >= 3
    /\ ~IntParse(Values[3]).ok
    /\ status' = "ValueError"
    /\ UNCHANGED <<options, column_names, table, points, ascii, lines, idx,
                   value, stdout>>

\* a category without a row passed over instead of raising
SkipMissingCategory ==
    /\ AtLine
    /\ lines[idx] # <<>>
    /\ Len(Values) >= 3
    /\ IntParse(Values[3]).ok
    /\ IntParse(Values[3]).val \notin DOMAIN table
    /\ idx' = idx + 1
    /\ UNCHANGED <<options, column_names, table, points, ascii, lines, value,
                   stdout, status>>

\* row = table[cat] fails
RaiseKeyError ==
    /\ AtLine
    /\ lines[idx] # <<>>
    /\ Len(Values) >= 3
    /\ IntParse(Values[3]).ok
    /\ IntParse(Values[3]).val \notin DOMAIN table
    /\ status' = "KeyError"
    /\ UNCHANGED <<options, column_names, table, points, ascii, lines, idx,
                   value, stdout>>

\* the inner loop and the closing blank line
WriteBlock ==
    /\ AtLine
    /\ lines[idx] # <<>>
    /\ Len(Values) >= 3
    /\ IntParse(Values[3]).ok
    /\ IntParse(Values[3]).val \in DOMAIN table
    /\ LET east == Values[1]
           north == Values[2]
           cat == IntParse(Values[3]).val
           row == table[cat]
           b == Block(row, east, north, value)
       IN  /\ stdout' = stdout \o b.writes
           /\ value' = b.value
    /\ idx' = idx + 1
    /\ UNCHANGED <<options, column_names, table, points, ascii, lines, status>>

\* the outer loop is exhausted and main() returns
Finish ==
    /\ status = "running"
    /\ idx > Len(lines)
    /\ status' = "done"
    /\ UNCHANGED <<options, column_names, table, points, ascii, lines, idx,
                   value, stdout>>

Next ==
    \/ SkipBlankLine
    \/ RaiseIndexError
    \/ RaiseValueError
    \/ RaiseKeyError
    \/ WriteBlock
    \/ Finish

Spec == Init /\ [][Next]_vars

(***************************************************************************)
(* Reading the output and the input back, for the properties below         *)
(***************************************************************************)

RECURSIVE BlocksFrom(_, _)
\* the complete blocks of a sequence of writes: each ends at a blank line
BlocksFrom(writes, cur) ==
    IF writes = <<>> THEN <<>>
    ELSE IF Head(writes).kind = "blank"
    THEN <<cur>> \o BlocksFrom(Tail(writes), <<>>)
    ELSE BlocksFrom(Tail(writes), Append(cur, Head(writes)))

Blocks == BlocksFrom(stdout, <<>>)

RECURSIVE OpenBlockFrom(_, _)
\* the attribute lines written after the last blank line
OpenBlockFrom(writes, cur) ==
    IF writes = <<>> THEN cur
    ELSE IF Head(writes).kind = "blank" THEN OpenBlockFrom(Tail(writes), <<>>)
    ELSE OpenBlockFrom(Tail(writes), Append(cur, Head(writes)))

OpenBlock == OpenBlockFrom(stdout, <<>>)

\* the attribute names of a block, in the order written
Keys(block) == [i \in 1..Len(block) |-> block[i].key]

\* the values a block gives for attribute a
Emitted(block, a) == {block[i].value : i \in {j \in 1..Len(block) : block[j].key = a}}

\* the features of the export: its non-blank lines, in order
IsFeature(p) == p # BlankPoint
Features == SelectSeq(points, IsFeature)

\* the integer a category field denotes, 0 when it denotes none
ExpectedCat(field) ==
    CASE field = <<"1">> -> 1
      [] field = <<" ", "+", "2">> -> 2
      [] field = <<"3">> -> 3
      [] OTHER -> 0

\* blank, short (fewer than three fields), badcat, norow or ok
Kind(p) ==
    IF p = BlankPoint THEN "blank"
    ELSE IF Len(p) < 3 THEN "short"
    ELSE IF ExpectedCat(p[3]) = 0 THEN "badcat"
    ELSE IF ExpectedCat(p[3]) \notin DOMAIN table THEN "norow"
    ELSE "ok"

\* the first line the run cannot process, 0 when there is none
FirstBad ==
    IF \E i \in 1..Len(points) : Kind(points[i]) \notin {"blank", "ok"}
    THEN CHOOSE i \in 1..Len(points) :
            /\ Kind(points[i]) \notin {"blank", "ok"}
            /\ \A j \in 1..(i - 1) : Kind(points[j]) \in {"blank", "ok"}
    ELSE 0

\* how many features precede line i
FeaturesBefore(i) == Cardinality({j \in 1..(i - 1) : IsFeature(points[j])})

\* the row of feature f
RowOf(f) == table[ExpectedCat(f[3])]

\* the cells of a row under the column called name
Cells(row, name) == {row[i] : i \in {j \in 1..Len(column_names) : column_names[j] = name}}

\* the 16 names without east, north and text
OptionBacked ==
    {base_label_attributes[i] : i \in 1..Len(base_label_attributes)}
        \ {"east", "north", "text"}

\* a block holds the 16 label attributes in order and is closed
HoldsLabelAttributes(block) ==
    LET IsLabel(w) == \E i \in 1..Len(base_label_attributes) :
                         base_label_attributes[i] = w.key
    IN  Keys(SelectSeq(block, IsLabel)) = base_label_attributes

\* the output is the complete blocks of the first n features and nothing else
OutputIsFirstBlocks(n) ==
    LET B == Blocks
    IN  /\ Len(B) = n
        /\ OpenBlock = <<>>
        /\ \A k \in 1..n : HoldsLabelAttributes(B[k])

(***************************************************************************)
(* Properties                                                              *)
(***************************************************************************)

\* C1: every emitted block holds exactly the 16 names east .. text, in that
\* order, each once, and no other name.
C1_SixteenNames ==
    LET B == Blocks
    IN  \A k \in 1..Len(B) : Keys(B[k]) = base_label_attributes

\* every non-blank line is a feature whose category has a row
ValidExport == \A i \in 1..Len(points) : Kind(points[i]) \in {"blank", "ok"}

\* C2: for a valid export, once the run has finished the number of blocks, each
\* closed by one blank line, is the number of non-blank lines; blank lines
\* write nothing.
C2_BlockPerFeature ==
    LET B == Blocks
        F == Features
    IN
        (ValidExport /\ status = "done") =>
            /\ Len(B) = Len(F)
            /\ OpenBlock = <<>>
            /\ \A k \in 1..Len(B) : B[k] # <<>>

C2_Witness ==
    /\ ValidExport
    /\ status = "done"
    /\ Len(Features) >= 1
    /\ Len(Features) < Len(points)

\* C3: an attribute whose name is a column name is emitted with the cell of
\* that column in the row of the feature's category, for every feature.
C3_ColumnFirst ==
    LET B == Blocks
        F == Features
    IN
        \A k \in 1..Len(B) :
            \A i \in 1..Len(base_label_attributes) :
                LET a == base_label_attributes[i]
                IN  InColumns(a) => Emitted(B[k], a) = Cells(RowOf(F[k]), a)

\* a block whose east comes from a column and differs from the geometry
C3_Witness ==
    LET B == Blocks
        F == Features
    IN
        /\ Len(B) >= 1
        /\ InColumns("east")
        /\ F[1][1] \notin Cells(RowOf(F[1]), "east")
        /\ Emitted(B[1], "east") = Cells(RowOf(F[1]), "east")

\* the first line the run cannot process is a feature without a row
MissingCategoryCase == FirstBad # 0 /\ Kind(points[FirstBad]) = "norow"

\* C4: a feature whose category has no row ends the run with a lookup error at
\* that feature: nothing of its block and of later blocks is written, the
\* blocks of the earlier features are complete, and the run never goes on.
C4_MissingCategoryAborts ==
    MissingCategoryCase =>
        /\ status \in {"running", "KeyError"}
        /\ idx <= FirstBad
        /\ Len(Blocks) <= FeaturesBefore(FirstBad)
        /\ status = "KeyError" =>
              /\ idx = FirstBad
              /\ OutputIsFirstBlocks(FeaturesBefore(FirstBad))

C4_Witness ==
    /\ MissingCategoryCase
    /\ status = "KeyError"
    /\ FeaturesBefore(FirstBad) >= 1
    /\ FirstBad < Len(points)

\* C5: when east (north) is no column, every block gives east (north) as the
\* first (second) field of its feature's line.
C5_GeometryFallback ==
    LET B == Blocks
        F == Features
    IN
        \A k \in 1..Len(B) :
            /\ ~InColumns("east") => Emitted(B[k], "east") = {F[k][1]}
            /\ ~InColumns("north") => Emitted(B[k], "north") = {F[k][2]}

C5_Witness ==
    LET B == Blocks
        F == Features
    IN
        /\ Len(B) >= 1
        /\ ~InColumns("east")
        /\ ~InColumns("north")
        /\ Len(column_names) > 1
        /\ F[1][1] # F[1][2]

\* C6: an option-backed attribute that is no column has the same value in
\* every block of the run.
C6_OptionsRunWide ==
    LET B == Blocks
        F == Features
    IN
        \A a \in OptionBacked :
            ~InColumns(a) =>
                \A j, k \in 1..Len(B) :
                    /\ Emitted(B[j], a) = Emitted(B[k], a)
                    /\ Cardinality(Emitted(B[k], a)) = 1

\* two blocks of features that differ in coordinates and in row
C6_Witness ==
    LET B == Blocks
        F == Features
    IN
        /\ Len(B) >= 2
        /\ F[1] # F[2]
        /\ RowOf(F[1]) # RowOf(F[2])

\* C7: when text is no column, text is the cell of name if there is a name
\* column, else the cell of label if there is a label column.
C7_TextGuess ==
    LET B == Blocks
        F == Features
    IN
        ~InColumns("text") =>
            \A k \in 1..Len(B) :
                /\ InColumns("name") =>
                      Emitted(B[k], "text") = Cells(RowOf(F[k]), "name")
                /\ (~InColumns("name") /\ InColumns("label")) =>
                      Emitted(B[k], "text") = Cells(RowOf(F[k]), "label")

\* both columns exist, label first, and their cells differ
C7_Witness ==
    LET B == Blocks
        F == Features
    IN
        /\ Len(B) >= 1
        /\ column_names = <<"cat", "label", "name">>
        /\ Cells(RowOf(F[1]), "name") # Cells(RowOf(F[1]), "label")

\* the option an attribute is said to read
OptionOf(a) ==
    IF a = "ref" THEN "reference" ELSE IF a = "rotate" THEN "rotation" ELSE a

\* C8: an option-backed attribute that is no column is emitted with the option
\* of its name, ref reading option reference and rotate option rotation.
C8_OptionVerbatim ==
    LET B == Blocks
        F == Features
    IN
        \A k \in 1..Len(B) :
            \A a \in OptionBacked :
                ~InColumns(a) => Emitted(B[k], a) = {options[OptionOf(a)]}

C8_Witness ==
    LET B == Blocks
        F == Features
    IN
        /\ Len(B) >= 1
        /\ ~InColumns("ref")
        /\ ~InColumns("rotate")
        /\ options["reference"] # options["rotation"]
        /\ Emitted(B[1], "ref") = {options["reference"]}

\* the first line the run cannot process does not parse
MalformedCase == FirstBad # 0 /\ Kind(points[FirstBad]) \in {"short", "badcat"}

\* the exception such a line raises
MalformedError ==
    IF Kind(points[FirstBad]) = "short" THEN "IndexError" ELSE "ValueError"

\* C9: a non-blank line with fewer than three fields, or whose third field is
\* no integer, ends the run with an error at that line: nothing of its block
\* and of later blocks is written, and the earlier blocks are complete.
C9_MalformedAborts ==
    MalformedCase =>
        /\ status \in {"running", MalformedError}
        /\ idx <= FirstBad
        /\ Len(Blocks) <= FeaturesBefore(FirstBad)
        /\ status = MalformedError =>
              /\ idx = FirstBad
              /\ OutputIsFirstBlocks(FeaturesBefore(FirstBad))

C9_Witness ==
    /\ MalformedCase
    /\ status = "ValueError"
    /\ FeaturesBefore(FirstBad) >= 1
    /\ FirstBad < Len(points)

\* no column can supply the text
NoTextSource == ~InColumns("text") /\ ~InColumns("name") /\ ~InColumns("label")

\* C10: when text, name and label are all missing from the columns, no block
\* carries a left-over value on its text line: the text written is empty.
C10_NoStaleText ==
    LET B == Blocks
        F == Features
    IN
        NoTextSource =>
            \A k \in 1..Len(B) : \A v \in Emitted(B[k], "text") : v = <<>>

====
